---- MODULE Spec2Model ----
(***************************************************************************)
(* A model of the radCAD execution engine (core/src/lib.rs):               *)
(*   run                      - the orchestrator over simulations, runs    *)
(*                              and parameter subsets;                     *)
(*   single_run               - one run: timesteps x blocks x variables;   *)
(*   generate_parameter_sweep - the parameter sweep expansion;             *)
(*   reduce_signals           - the policy invocation and signal merge.    *)
(*                                                                         *)
(* Python objects that the engine mutates or copies (the state dicts) live *)
(* in a heap of dicts and are held by reference, so that a missing copy    *)
(* shows as aliasing.  Lists that the engine only appends to are sequences.*)
(***************************************************************************)
EXTENDS Integers, Sequences, FiniteSets, TLC

VARIABLES
    heap,                 \* the Python dict objects, by reference (index)
    origin,               \* for each object, the step that created it
    \* ---- arguments of single_run
    simulation, timesteps, run, subset, initial_state, state_update_blocks, params,
    \* ---- locals of single_run
    result, timestep, previous_state, substeps, substep, substate,
    var_index, substate_copy, signals,
    pc, outcome,
    calls,                \* log of the user functions the engine invoked
    \* ---- run (the orchestrator)
    simulations, simulation_index, run_index, param_sweep, subset_index,
    run_result, run_pc, run_outcome, units,
    \* ---- a direct call of generate_parameter_sweep / reduce_signals
    fn_in, fn_out

vars == << heap, origin, simulation, timesteps, run, subset, initial_state,
           state_update_blocks, params, result, timestep, previous_state,
           substeps, substep, substate, var_index, substate_copy, signals,
           pc, outcome, calls, simulations, simulation_index, run_index,
           param_sweep, subset_index, run_result, run_pc, run_outcome, units,
           fn_in, fn_out >>

(***************************************************************************)
(* Bounds of the model.                                                    *)
(***************************************************************************)
MaxTimesteps == 2
MaxBlocks    == 2
MaxPolicies  == 3
MaxSeqLen    == 3
MaxRuns      == 2
MaxSims      == 2

(***************************************************************************)
(* Python dicts: functions from keys to values.                            *)
(***************************************************************************)
EmptyDict == [k \in {} |-> 0]

\* PyDict::set_item
SetItem(d, k, v) == [kk \in (DOMAIN d) \cup {k} |-> IF kk = k THEN v ELSE d[kk]]

\* PyDict::contains
Contains(d, k) == k \in DOMAIN d

Max(S) == CHOOSE m \in S : \A n \in S : n <= m

(***************************************************************************)
(* Python values that policies return.  A value is [t |-> kind, v |-> n]:  *)
(*   int n, float n.0, str (a string of decimal digits, read as n), None,  *)
(*   and the NotImplemented singleton.                                     *)
(***************************************************************************)
PyInt(n)   == [t |-> "int",   v |-> n]
PyFloat(n) == [t |-> "float", v |-> n]
PyStr(n)   == [t |-> "str",   v |-> n]
PyNone     == [t |-> "none",  v |-> 0]
PyEmptyList == [t |-> "list", v |-> 0]
PyNotImplemented == [t |-> "NotImplemented", v |-> 0]
PyRaised   == [t |-> "raised", v |-> 0]

\* a.__add__(b) as CPython evaluates the method call of line 367: the method
\* of the left operand alone, with no fallback to b.__radd__.
DunderAdd(a, b) ==
    CASE a.t = "int"   /\ b.t = "int"              -> PyInt(a.v + b.v)
      [] a.t = "int"                               -> PyNotImplemented
      [] a.t = "float" /\ b.t \in {"int", "float"} -> PyFloat(a.v + b.v)
      [] a.t = "float"                             -> PyNotImplemented
      [] a.t = "str"   /\ b.t = "str"              -> PyStr(a.v * 10 + b.v)
      [] OTHER                                     -> PyRaised

(***************************************************************************)
(* generate_parameter_sweep (lines 291-315).  params maps a name to a      *)
(* sequence.  value.len() - 1 on an empty sequence (line 307) is a usize   *)
(* subtraction overflow: a panic in a build with overflow checks, and      *)
(* otherwise an index of usize::MAX, which Python refuses (IndexError).    *)
(***************************************************************************)
SweepMaxLen(p) == IF DOMAIN p = {} THEN 0 ELSE Max({Len(p[k]) : k \in DOMAIN p})

SweepFails(p) == SweepMaxLen(p) > 0 /\ \E k \in DOMAIN p : Len(p[k]) = 0

SweepFailures == {"panic", "IndexError"}

SweepParamNoPad(value, sweep_index) ==
    value[((sweep_index - 1) % Len(value)) + 1]

\* lines 304-308, sweep_index counted from 1
SweepParam(value, sweep_index) ==
    IF sweep_index <= Len(value) THEN value[sweep_index] ELSE value[Len(value)]

SweepValue(p) ==
    [sweep_index \in 1..SweepMaxLen(p) |->
        [k \in DOMAIN p |-> SweepParam(p[k], sweep_index)]]

generate_parameter_sweep(p) ==
    IF SweepFails(p)
    THEN {[status |-> f, value |-> <<>>] : f \in SweepFailures}
    ELSE {[status |-> "ok", value |-> SweepValue(p)]}

(***************************************************************************)
(* The user functions.  A policy or an update function is opaque code of   *)
(* the caller; the model draws it from a catalogue of behaviours:          *)
(*   op   what the call does (below);                                      *)
(*   mut  whether the function also writes to the substate argument it is  *)
(*        given (substate["dirty"] = 1) before it returns or raises.       *)
(***************************************************************************)
Touch(function, d) == IF function.mut THEN SetItem(d, "dirty", 1) ELSE d

\* A policy: op "ret" returns the dict out; "raise" raises; "notdict" returns
\* a value that is no dict.
Policy(op, out, mut) == [op |-> op, out |-> out, mut |-> mut]

CallPolicy(function, p, substep_, result_, d) ==
    [ status |-> CASE function.op = "ret"   -> "ok"
                   [] function.op = "raise" -> "raise"
                   [] OTHER                 -> "notdict",
      value  |-> function.out,
      arg    |-> Touch(function, d) ]

\* An update function: "inc" returns (key, substate[key] + 1); "addsig"
\* returns (key, substate[key] + signals["s"]) and needs an int signal;
\* "addparam" returns (key, substate[key] + params["a"]) and needs an int
\* parameter; "set" returns (key, val); "raise" raises; "nottuple" returns a value that
\* is no tuple; "tuple3" returns the 3-tuple (key, val, val); "tuple1" returns
\* the 1-tuple (key,); "notcallable" is an object that cannot be called.
\* len is the length of the tuple returned (0 when none is).
UpdateFn(op, key, val, mut) == [op |-> op, key |-> key, val |-> val, mut |-> mut]

CallUpdate(function, p, substep_, result_, d, sig) ==
    LET tuple(v, n) == [status |-> "ok", key |-> function.key, value |-> v,
                        len |-> n, arg |-> Touch(function, d)]
        ok(v) == tuple(v, 2)
        bad(s) == [status |-> s, key |-> function.key, value |-> 0,
                   len |-> IF s = "tuple1" THEN 1 ELSE 0, arg |-> Touch(function, d)]
    IN  CASE function.op = "inc" ->
               IF function.key \in DOMAIN d THEN ok(d[function.key] + 1)
               ELSE bad("raise")
          [] function.op = "addsig" ->
               IF /\ function.key \in DOMAIN d
                  /\ "s" \in DOMAIN sig
                  /\ sig["s"].t = "int"
               THEN ok(d[function.key] + sig["s"].v)
               ELSE bad("raise")
          [] function.op = "addparam" ->
               IF /\ function.key \in DOMAIN d
                  /\ "a" \in DOMAIN p
                  /\ p["a"].t = "int"
               THEN ok(d[function.key] + p["a"].v)
               ELSE bad("raise")
          [] function.op = "set"      -> ok(function.val)
          [] function.op = "nottuple" -> bad("nottuple")
          [] function.op = "tuple3"   -> tuple(function.val, 3)
          [] function.op = "tuple1"   -> bad("tuple1")
          [] OTHER                    -> bad("raise")

(***************************************************************************)
(* reduce_signals (lines 317-381).  policies is the ordered policies       *)
(* mapping of the block, a sequence of <<name, function>>.                 *)
(***************************************************************************)
\* lines 326-352: the policies are called in order, all with the same
\* substate object; the first failure returns.
RECURSIVE PolicyLoop(_, _, _, _, _, _, _, _)
PolicyLoop(policies, i, p, substep_, result_, d, policy_results, log) ==
    IF i > Len(policies)
    THEN [status |-> "ok", policy_results |-> policy_results, arg |-> d, log |-> log]
    ELSE LET c   == CallPolicy(policies[i][2], p, substep_, result_, d)
             rec == [fn |-> "policy", name |-> policies[i][1], arg |-> d,
                     mut |-> policies[i][2].mut,
                     ret |-> [status |-> c.status, key |-> "", value |-> 0, len |-> 0]]
         IN  CASE c.status = "raise" ->
                    [status |-> "PropagatedUserError", policy_results |-> policy_results,
                     arg |-> c.arg, log |-> Append(log, rec)]
               [] c.status = "notdict" ->
                    [status |-> "PolicyResultTypeError", policy_results |-> policy_results,
                     arg |-> c.arg, log |-> Append(log, rec)]
               [] OTHER ->
                    PolicyLoop(policies, i + 1, p, substep_, result_, c.arg,
                               Append(policy_results, c.value), Append(log, rec))

\* lines 361-376: one policy result folded into the accumulator.  A failing
\* __add__ is the panic of .expect("reduce_signals").
MergeRaises(acc, a) ==
    \E key \in (DOMAIN a) \cap (DOMAIN acc) : DunderAdd(acc[key], a[key]) = PyRaised

MergeOne(acc, a) ==
    [key \in (DOMAIN acc) \cup (DOMAIN a) |->
        IF key \in DOMAIN acc
        THEN IF key \in DOMAIN a THEN DunderAdd(acc[key], a[key]) ELSE acc[key]
        ELSE a[key]]

RECURSIVE MergeFold(_, _, _)
MergeFold(policy_results, i, acc) ==
    IF i > Len(policy_results) THEN [status |-> "ok", value |-> acc]
    ELSE IF MergeRaises(acc, policy_results[i])
         THEN [status |-> "panic", value |-> acc]
         ELSE MergeFold(policy_results, i + 1, MergeOne(acc, policy_results[i]))

\* lines 354-379
MergeSignals(policy_results) ==
    CASE Len(policy_results) = 0 -> [status |-> "ok", value |-> EmptyDict]
      [] Len(policy_results) = 1 ->
            [status |-> "ok", value |-> policy_results[Len(policy_results)]]
      [] OTHER -> MergeFold(policy_results, 1, EmptyDict)

reduce_signals(p, substep_, result_, d, policies) ==
    LET l == PolicyLoop(policies, 1, p, substep_, result_, d, <<>>, <<>>)
        m == MergeSignals(l.policy_results)
    IN  IF l.status /= "ok"
        THEN [status |-> l.status, value |-> EmptyDict, arg |-> l.arg, log |-> l.log]
        ELSE [status |-> m.status, value |-> m.value, arg |-> l.arg, log |-> l.log]

(***************************************************************************)
(* single_run (lines 137-288).  Counters timestep, substep are the 0-based *)
(* loop variables of the code; sequences are indexed from 1.               *)
(***************************************************************************)
MetadataKeys == {"simulation", "subset", "run", "substep", "timestep"}

\* dict.copy() / pickle.loads(pickle.dumps(.)): a new object with the same
\* content (the values of the model are scalars, so the shallow and the deep
\* copy agree).  The object is allocated at the end of the heap.
NewRef(h) == Len(h) + 1

Origin(kind, timestep_, substep_) ==
    [kind |-> kind, timestep |-> timestep_, substep |-> substep_]

\* list.insert(index, x), index counted from 0
InsertFront(list, index, x) == << x >> \o list

InsertAt(list, index, x) ==
    SubSeq(list, 1, index) \o << x >> \o SubSeq(list, index + 1, Len(list))

\* lines 151-155
StampInitial(d, simulation_, subset_, run_) ==
    SetItem(SetItem(SetItem(SetItem(SetItem(d,
        "simulation", simulation_), "subset", subset_), "run", run_ + 1),
        "substep", 0), "timestep", 0)

\* lines 181-184
StampPrevious(d, simulation_, subset_, run_, timestep_) ==
    SetItem(SetItem(SetItem(SetItem(d,
        "simulation", simulation_), "subset", subset_), "run", run_ + 1),
        "timestep", timestep_ + 1)

Variables(psu) == psu.variables
Policies(psu)  == psu.policies

SingleRunLocals == << result, timestep, previous_state, substeps, substep, substate,
                      var_index, substate_copy, signals >>
SingleRunArgs == << simulation, timesteps, run, subset, initial_state,
                    state_update_blocks, params >>
RunVars == << simulations, simulation_index, run_index, param_sweep, subset_index,
              run_result, run_pc, run_outcome, units >>
FnVars == << fn_in, fn_out >>

\* an early return Err(..) or a panic: nothing is handed back
Fail(kind) ==
    /\ pc' = "error"
    /\ outcome' = kind

InitialCopyAlias(h, src) == src

\* line 157: initial_state.copy(), the object that entry 0 holds
InitialCopyRef(h, src) == NewRef(h)

\* lines 150-158: the caller's initial_state is stamped in place, and a copy
\* of it becomes entry 0 of the trajectory.
Stamp ==
    /\ pc = "start"
    /\ LET h == [heap EXCEPT ![initial_state] =
                    StampInitial(@, simulation, subset, run)]
       IN  /\ heap' = Append(h, h[initial_state])
           /\ origin' = Append(origin, Origin("entry0", 0, 0))
           /\ result' = << << InitialCopyRef(h, initial_state) >> >>
    /\ timestep' = 0
    /\ pc' = "timestep"
    /\ calls' = <<>>
    /\ UNCHANGED << previous_state, substeps, substep, substate, var_index,
                    substate_copy, signals, outcome >>
    /\ UNCHANGED << SingleRunArgs, RunVars, FnVars >>

\* lines 162-180: the state a timestep starts from
PreviousSource(result_, timestep_) ==
    IF timestep_ = 0 THEN result_[1][1]
    ELSE result_[Len(result_)][Len(result_[Len(result_)])]

\* lines 169, 178: .copy() of the state the timestep starts from
PreviousStateAlias(h, src) == src

PreviousStateRef(h, src) == NewRef(h)

\* lines 160-185.  substates.len() - 1 on an empty last entry (line 176) is a
\* usize overflow: a panic, at the subtraction or at isize::try_from.
BeginTimestep ==
    /\ pc = "timestep"
    /\ timestep < timesteps
    /\ IF timestep > 0 /\ Len(result[Len(result)]) = 0
       THEN /\ Fail("panic")
            /\ UNCHANGED << heap, origin, previous_state, substeps, substep >>
       ELSE LET src == PreviousSource(result, timestep)
                ref == PreviousStateRef(heap, src)
            IN  /\ heap' = [Append(heap, heap[src]) EXCEPT ![ref] =
                               StampPrevious(@, simulation, subset, run, timestep)]
                /\ previous_state' = ref
            /\ origin' = Append(origin, Origin("seed", timestep, 0))
            /\ substeps' = <<>>
            /\ substep' = 0
            /\ pc' = "block"
            /\ UNCHANGED outcome
    /\ UNCHANGED << result, timestep, substate, var_index, substate_copy, signals, calls >>
    /\ UNCHANGED << SingleRunArgs, RunVars, FnVars >>

\* line 287
Return ==
    /\ pc = "timestep"
    /\ timestep >= timesteps
    /\ pc' = "done"
    /\ outcome' = "ok"
    /\ UNCHANGED << heap, origin, calls, SingleRunLocals, SingleRunArgs, RunVars, FnVars >>

\* lines 187-193: the object a block starts from
SubstateSourcePrevious(previous_state_, substeps_, substep_) == previous_state_

SubstateSource(previous_state_, substeps_, substep_) ==
    IF substep_ = 0 THEN previous_state_ ELSE substeps_[substep_]

\* lines 188, 192: .copy() of the state the block starts from
SubstateRef(h, src) == NewRef(h)

\* lines 186-196
BeginBlock ==
    /\ pc = "block"
    /\ substep < Len(state_update_blocks)
    /\ LET src == SubstateSource(previous_state, substeps, substep)
           ref == SubstateRef(heap, src)
       IN  /\ heap' = [Append(heap, heap[src]) EXCEPT ![ref] =
                          SetItem(@, "substep", substep + 1)]
           /\ substate' = ref
    /\ origin' = Append(origin, Origin("block", timestep, substep))
    /\ var_index' = 1
    /\ pc' = "var"
    /\ UNCHANGED << result, timestep, previous_state, substeps, substep,
                    substate_copy, signals, outcome, calls >>
    /\ UNCHANGED << SingleRunArgs, RunVars, FnVars >>

\* line 284
EndTimestep ==
    /\ pc = "block"
    /\ substep >= Len(state_update_blocks)
    /\ result' = Append(result, substeps)
    /\ timestep' = timestep + 1
    /\ pc' = "timestep"
    /\ UNCHANGED << heap, origin, previous_state, substeps, substep, substate,
                    var_index, substate_copy, signals, outcome, calls >>
    /\ UNCHANGED << SingleRunArgs, RunVars, FnVars >>

psu == state_update_blocks[substep + 1]
state == Variables(psu)[var_index][1]
function == Variables(psu)[var_index][2]

\* line 204: the schema a variable name is checked against is the dict the
\* caller passed, as it is now (stamped by lines 151-155)
SchemaContains(h, initial_state_, key) == Contains(h[initial_state_], key)

\* lines 210-211: the object the user functions of this variable receive
SubstateCopyAlias(h, substate_) == substate_

SubstateCopyRef(h, substate_) == NewRef(h)

\* lines 197-211
CheckVar ==
    /\ pc = "var"
    /\ var_index <= Len(Variables(psu))
    /\ IF ~SchemaContains(heap, initial_state, state)
       THEN /\ Fail("InvalidStateKey")
            /\ UNCHANGED << heap, origin, substate_copy >>
       ELSE /\ heap' = Append(heap, heap[substate])
            /\ origin' = Append(origin, Origin("clone", timestep, substep))
            /\ substate_copy' = SubstateCopyRef(heap, substate)
            /\ pc' = "reduce"
            /\ UNCHANGED outcome
    /\ UNCHANGED << result, timestep, previous_state, substeps, substep, substate,
                    var_index, signals, calls >>
    /\ UNCHANGED << SingleRunArgs, RunVars, FnVars >>

\* lines 277-282
EndBlock ==
    /\ pc = "var"
    /\ var_index > Len(Variables(psu))
    /\ substeps' = InsertAt(substeps, substep, substate)
    /\ substep' = substep + 1
    /\ pc' = "block"
    /\ UNCHANGED << heap, origin, result, timestep, previous_state, substate, var_index,
                    substate_copy, signals, outcome, calls >>
    /\ UNCHANGED << SingleRunArgs, RunVars, FnVars >>

\* a call record of the log
Logged(rec) ==
    [fn |-> rec.fn, name |-> rec.name, arg |-> rec.arg, mut |-> rec.mut, ret |-> rec.ret,
     timestep |-> timestep, substep |-> substep, state |-> state,
     ref |-> substate_copy, acc |-> heap[substate]]

\* lines 212-225
Reduce ==
    /\ pc = "reduce"
    /\ LET r == reduce_signals(params, substep, result, heap[substate_copy], Policies(psu))
       IN  /\ heap' = [heap EXCEPT ![substate_copy] = r.arg]
           /\ calls' = calls \o [i \in 1..Len(r.log) |-> Logged(r.log[i])]
           /\ IF r.status = "ok"
              THEN /\ signals' = r.value
                   /\ pc' = "update"
                   /\ UNCHANGED outcome
              ELSE /\ Fail(r.status)
                   /\ UNCHANGED signals
    /\ UNCHANGED << origin, result, timestep, previous_state, substeps, substep,
                    substate, var_index, substate_copy >>
    /\ UNCHANGED << SingleRunArgs, RunVars, FnVars >>

\* lines 256-275: what becomes of the pair an update function returned
KeyVerdictNoMatch(h, initial_state_, state_, state_key) ==
    IF ~SchemaContains(h, initial_state_, state_key) THEN "InvalidStateKey"
    ELSE "apply"

KeyVerdictApply(h, initial_state_, state_, state_key) == "apply"

KeyVerdict(h, initial_state_, state_, state_key) ==
    IF ~SchemaContains(h, initial_state_, state_key) THEN "InvalidStateKey"
    ELSE IF state_ /= state_key THEN "StateKeyMismatch"
    ELSE "apply"

\* lines 226-275
Update ==
    /\ pc = "update"
    /\ IF function.op = "notcallable"
       THEN /\ Fail("NotCallable")
            /\ UNCHANGED << heap, var_index, calls >>
       ELSE LET u == CallUpdate(function, params, substep, result,
                                heap[substate_copy], signals)
                h == [heap EXCEPT ![substate_copy] = u.arg]
                verdict == KeyVerdict(h, initial_state, state, u.key)
            IN  /\ calls' = Append(calls, Logged(
                        [fn |-> "update", name |-> state, arg |-> heap[substate_copy],
                         mut |-> function.mut,
                         ret |-> [status |-> u.status, key |-> u.key, value |-> u.value,
                                  len |-> u.len]]))
                /\ CASE u.status = "raise" ->
                          /\ Fail("PropagatedUserError")
                          /\ heap' = h
                          /\ UNCHANGED var_index
                     [] u.status = "nottuple" ->
                          /\ Fail("UpdateResultTypeError")
                          /\ heap' = h
                          /\ UNCHANGED var_index
                     [] u.status = "tuple1" ->
                          \* line 257: PyTuple::get_item(1) past the end panics
                          /\ Fail("panic")
                          /\ heap' = h
                          /\ UNCHANGED var_index
                     [] u.status = "ok" /\ verdict /= "apply" ->
                          /\ Fail(verdict)
                          /\ heap' = h
                          /\ UNCHANGED var_index
                     [] OTHER ->
                          /\ heap' = [h EXCEPT ![substate] = SetItem(@, u.key, u.value)]
                          /\ var_index' = var_index + 1
                          /\ pc' = "var"
                          /\ UNCHANGED outcome
    /\ UNCHANGED << origin, result, timestep, previous_state, substeps, substep,
                    substate, substate_copy, signals >>
    /\ UNCHANGED << SingleRunArgs, RunVars, FnVars >>

SingleRunNext ==
    \/ Stamp
    \/ BeginTimestep
    \/ Return
    \/ BeginBlock
    \/ EndTimestep
    \/ CheckVar
    \/ EndBlock
    \/ Reduce
    \/ Update

(***************************************************************************)
(* The inputs: the catalogue of caller models.                             *)
(***************************************************************************)
IncX        == UpdateFn("inc", "x", 0, FALSE)
IncY        == UpdateFn("inc", "y", 0, FALSE)
IncXMut     == UpdateFn("inc", "x", 0, TRUE)
AddSigX     == UpdateFn("addsig", "x", 0, FALSE)
AddParamY   == UpdateFn("addparam", "y", 0, FALSE)
SetZ        == UpdateFn("set", "z", 1, FALSE)
SetTimestep == UpdateFn("set", "timestep", 7, FALSE)
SetSubstep  == UpdateFn("set", "substep", 7, FALSE)
Raises      == UpdateFn("raise", "x", 0, FALSE)
NotTuple    == UpdateFn("nottuple", "x", 0, FALSE)
NotCallable == UpdateFn("notcallable", "x", 0, FALSE)
Tuple3X     == UpdateFn("tuple3", "x", 5, FALSE)
Tuple1Y     == UpdateFn("tuple1", "y", 0, FALSE)

Sig(v)    == Policy("ret", [s |-> v], FALSE)
SigMut(v) == Policy("ret", [s |-> v], TRUE)
SigR(v)   == Policy("ret", [r |-> v], FALSE)
SigSR(v, w) == Policy("ret", [s |-> v, r |-> w], FALSE)
PolRaises == Policy("raise", EmptyDict, FALSE)
PolNotDict == Policy("notdict", EmptyDict, FALSE)

VarMaps ==
    { <<>>,
      << <<"x", IncX>> >>,
      << <<"x", IncX>>, <<"y", IncY>> >>,
      << <<"x", IncXMut>>, <<"y", AddParamY>> >>,
      << <<"x", AddSigX>> >>,
      << <<"x", IncY>> >>,
      << <<"x", SetZ>> >>,
      << <<"z", SetZ>> >>,
      << <<"timestep", SetTimestep>> >>,
      << <<"substep", SetSubstep>> >>,
      << <<"y", IncY>>, <<"x", Raises>> >>,
      << <<"x", NotTuple>> >>,
      << <<"x", NotCallable>> >>,
      << <<"x", Tuple3X>>, <<"y", Tuple1Y>> >> }

PolMaps ==
    { << <<"p1", Sig(PyInt(1))>> >>,
      << <<"p1", Sig(PyInt(1))>>, <<"p2", Sig(PyInt(2))>> >>,
      << <<"p1", SigMut(PyInt(1))>>, <<"p2", SigR(PyInt(2))>> >>,
      << <<"p1", Sig(PyInt(1))>>, <<"p2", PolRaises>>, <<"p3", Sig(PyInt(1))>> >>,
      << <<"p1", PolNotDict>> >>,
      << <<"p1", Sig(PyNone)>>, <<"p2", Sig(PyInt(1))>> >>,
      << <<"p1", Sig(PyInt(1))>>, <<"p2", Sig(PyFloat(2))>> >> }

Block(policies, variables) == [policies |-> policies, variables |-> variables]

Blocks ==
    { Block(<<>>, v) : v \in VarMaps }
    \cup { Block(pm, << <<"x", AddSigX>>, <<"y", IncY>> >>) : pm \in PolMaps }
    \cup { Block(<< <<"p1", Sig(PyInt(1))>>, <<"p2", Sig(PyStr(1))>> >>,
                 << <<"x", IncX>> >>) }

SeqsUpTo(S, n) == UNION { [1..m -> S] : m \in 0..n }

\* the keys of the initial_state mapping that the caller supplies
SchemaKeys == {"x", "y"}

InitialStates == { d \in [SchemaKeys -> {0, 1, 3}] :
                     d \in { [x |-> 0, y |-> 0], [x |-> 3, y |-> 1] } }

\* <<simulation, run, subset>>
UnitIndices == { <<0, 0, 0>>, <<2, 1, 3>> }

ParamSets == { [a |-> PyInt(2)] }

RunIdle ==
    /\ simulations = <<>>
    /\ simulation_index = 0
    /\ run_index = 0
    /\ param_sweep = <<>>
    /\ subset_index = 0
    /\ run_result = <<>>
    /\ run_pc = "idle"
    /\ run_outcome = "none"
    /\ units = <<>>

FnIdle ==
    /\ fn_in = <<>>
    /\ fn_out = <<>>

SingleRunLocalsInit ==
    /\ result = <<>>
    /\ timestep = 0
    /\ previous_state = 0
    /\ substeps = <<>>
    /\ substep = 0
    /\ substate = 0
    /\ var_index = 0
    /\ substate_copy = 0
    /\ signals = EmptyDict
    /\ outcome = "none"
    /\ calls = <<>>

\* a caller about to call single_run(simulation, timesteps, run, subset,
\* initial_state, state_update_blocks, params)
Init ==
    /\ \E d \in InitialStates : heap = << d >>
    /\ origin = << Origin("caller", 0, 0) >>
    /\ initial_state = 1
    /\ \E u \in UnitIndices :
          /\ simulation = u[1]
          /\ run = u[2]
          /\ subset = u[3]
    /\ timesteps \in 0..MaxTimesteps
    /\ state_update_blocks \in SeqsUpTo(Blocks, MaxBlocks)
    /\ params \in ParamSets
    /\ pc = "start"
    /\ SingleRunLocalsInit
    /\ RunIdle
    /\ FnIdle

Next == SingleRunNext

Spec == Init /\ [][Next]_vars

(***************************************************************************)
(* A direct call of generate_parameter_sweep(params).                      *)
(***************************************************************************)
ParamNames == {"a", "b", "c"}
ParamValues == {PyInt(1), PyInt(2)}

ParamMappings ==
    UNION { [names -> SeqsUpTo(ParamValues, MaxSeqLen)] : names \in SUBSET ParamNames }

SingleRunIdle ==
    /\ heap = <<>>
    /\ origin = <<>>
    /\ simulation = 0
    /\ timesteps = 0
    /\ run = 0
    /\ subset = 0
    /\ initial_state = 0
    /\ state_update_blocks = <<>>
    /\ params = EmptyDict
    /\ SingleRunLocalsInit

InitSweep ==
    /\ fn_in \in ParamMappings
    /\ fn_out = [status |-> "none", value |-> <<>>]
    /\ pc = "call"
    /\ SingleRunIdle
    /\ RunIdle

SweepCall ==
    /\ pc = "call"
    /\ fn_out' \in generate_parameter_sweep(fn_in)
    /\ pc' = "returned"
    /\ UNCHANGED << heap, origin, calls, outcome, fn_in, SingleRunLocals,
                    SingleRunArgs, RunVars >>

NextSweep == SweepCall

SpecSweep == InitSweep /\ [][NextSweep]_vars

(***************************************************************************)
(* A direct call of reduce_signals for one block's policies.               *)
(***************************************************************************)
PolicyFns ==
    { Sig(PyInt(1)), Sig(PyInt(2)), Sig(PyFloat(2)), Sig(PyStr(1)), Sig(PyStr(2)),
      Sig(PyNone), SigR(PyInt(1)), SigSR(PyInt(2), PyInt(1)), SigMut(PyInt(1)),
      PolRaises, PolNotDict }

PolicyNames == [i \in 1..(MaxPolicies + 1) |->
                   CASE i = 1 -> "p1" [] i = 2 -> "p2" [] i = 3 -> "p3" [] OTHER -> "p4"]

InitReduce ==
    /\ \E fs \in SeqsUpTo(PolicyFns, MaxPolicies) :
          fn_in = [i \in 1..Len(fs) |-> << PolicyNames[i], fs[i] >>]
    /\ fn_out = [status |-> "none", value |-> EmptyDict, arg |-> EmptyDict, log |-> <<>>]
    /\ pc = "call"
    /\ SingleRunIdle
    /\ RunIdle

ReduceCall ==
    /\ pc = "call"
    /\ fn_out' = reduce_signals(params, 0, <<>>, [x |-> 0], fn_in)
    /\ pc' = "returned"
    /\ UNCHANGED << heap, origin, calls, outcome, fn_in, SingleRunLocals,
                    SingleRunArgs, RunVars >>

NextReduce == ReduceCall

SpecReduce == InitReduce /\ [][NextReduce]_vars

(***************************************************************************)
(* run (lines 77-134): the orchestrator.  Each unit is a call of           *)
(* single_run, whose steps are the actions above; run waits for it.        *)
(***************************************************************************)
Simulation(model, timesteps_, runs) ==
    [initial_state |-> 0, state_update_blocks |-> model[1], params |-> model[2],
     timesteps |-> timesteps_, runs |-> runs]

simulation_ == simulations[simulation_index + 1]

\* the params mapping itself, passed when the sweep is empty: then every
\* sequence in it is empty
RawParams(p) == [k \in DOMAIN p |-> PyEmptyList]

\* lines 95, 107 and 125: the params of the unit
UnitParamsFirst(sweep, subset_, raw) ==
    IF Len(sweep) > 0 THEN sweep[1] ELSE RawParams(raw)

UnitParams(sweep, subset_, raw) ==
    IF Len(sweep) > 0 THEN sweep[subset_ + 1] ELSE RawParams(raw)

\* lines 93-95: the unit after <<run, subset>>, the subsets innermost
NextUnit(run_, subset_, sweep) ==
    IF Len(sweep) > 0 /\ subset_ + 1 < Len(sweep)
    THEN << run_, subset_ + 1 >>
    ELSE << run_ + 1, 0 >>

\* lines 82-91; the unwrap of line 90 panics when the sweep fails
RunBeginSimulation ==
    /\ run_pc = "simulation"
    /\ simulation_index < Len(simulations)
    /\ \E sweep \in generate_parameter_sweep(simulation_.params) :
          IF sweep.status /= "ok"
          THEN /\ run_pc' = "error"
               /\ run_outcome' = "panic"
               /\ UNCHANGED << param_sweep, run_index, subset_index >>
          ELSE /\ param_sweep' = sweep.value
               /\ run_index' = 0
               /\ subset_index' = 0
               /\ run_pc' = "unit"
               /\ UNCHANGED run_outcome
    /\ UNCHANGED << simulations, simulation_index, run_result, units >>
    /\ UNCHANGED << heap, origin, calls, pc, outcome, SingleRunLocals, SingleRunArgs,
                    FnVars >>

\* line 133
RunReturn ==
    /\ run_pc = "simulation"
    /\ simulation_index >= Len(simulations)
    /\ run_pc' = "done"
    /\ run_outcome' = "ok"
    /\ UNCHANGED << simulations, simulation_index, run_index, param_sweep,
                    subset_index, run_result, units >>
    /\ UNCHANGED << heap, origin, calls, pc, outcome, SingleRunLocals, SingleRunArgs,
                    FnVars >>

\* lines 93-108 and 113-126: the call of single_run for the next unit
RunCallUnit ==
    /\ run_pc = "unit"
    /\ run_index < simulation_.runs
    /\ simulation' = simulation_index
    /\ timesteps' = simulation_.timesteps
    /\ run' = run_index
    /\ subset' = subset_index
    /\ initial_state' = simulation_.initial_state
    /\ state_update_blocks' = simulation_.state_update_blocks
    /\ params' = UnitParams(param_sweep, subset_index, simulation_.params)
    /\ pc' = "start"
    /\ outcome' = "none"
    /\ run_pc' = "wait"
    /\ units' = Append(units, [simulation |-> simulation', run |-> run',
                               subset |-> subset', params |-> params',
                               returned |-> FALSE, result |-> <<>>])
    /\ UNCHANGED << simulations, simulation_index, run_index, param_sweep,
                    subset_index, run_result, run_outcome >>
    /\ UNCHANGED << heap, origin, calls, SingleRunLocals, FnVars >>

\* the end of the loop of line 93
RunEndSimulation ==
    /\ run_pc = "unit"
    /\ run_index >= simulation_.runs
    /\ simulation_index' = simulation_index + 1
    /\ run_pc' = "simulation"
    /\ UNCHANGED << simulations, run_index, param_sweep, subset_index, run_result,
                    run_outcome, units >>
    /\ UNCHANGED << heap, origin, calls, pc, outcome, SingleRunLocals, SingleRunArgs,
                    FnVars >>

\* list.extend(iterable) of lines 98 and 116: the elements of the iterable,
\* as they are, become elements of the list
Extend(list, iterable) == list \o iterable

\* lines 96-111 and 114-129: result.extend(the trajectory of the unit)
RunCollect ==
    /\ run_pc = "wait"
    /\ pc = "done"
    /\ run_result' = Extend(run_result, result)
    /\ units' = [units EXCEPT ![Len(units)].returned = TRUE,
                              ![Len(units)].result = result]
    /\ run_index' = NextUnit(run_index, subset_index, param_sweep)[1]
    /\ subset_index' = NextUnit(run_index, subset_index, param_sweep)[2]
    /\ run_pc' = "unit"
    /\ pc' = "idle"
    /\ UNCHANGED << simulations, simulation_index, param_sweep, run_outcome >>
    /\ UNCHANGED << heap, origin, calls, outcome, SingleRunLocals, SingleRunArgs, FnVars >>

\* the ? of lines 108 and 126: an error of the unit is the error of run
RunAbort ==
    /\ run_pc = "wait"
    /\ pc = "error"
    /\ run_pc' = "error"
    /\ run_outcome' = outcome
    /\ pc' = "idle"
    /\ UNCHANGED << simulations, simulation_index, run_index, param_sweep,
                    subset_index, run_result, units >>
    /\ UNCHANGED << heap, origin, calls, outcome, SingleRunLocals, SingleRunArgs, FnVars >>

\* the caller's models: <<blocks, params>>, with the timesteps
IncModel    == << << Block(<<>>, << <<"x", IncX>> >>) >>, EmptyDict >>
SweptModel  == << << Block(<<>>, << <<"x", IncXMut>>, <<"y", AddParamY>> >>) >>,
                  [a |-> << PyInt(1), PyInt(2) >>] >>
PaddedModel == << << Block(<< <<"p1", Sig(PyInt(1))>> >>, << <<"x", AddSigX>> >>) >>,
                  [a |-> << PyInt(1), PyInt(2) >>, b |-> << PyInt(1) >>] >>
EmptySeqModel == << << Block(<<>>, << <<"x", IncX>> >>) >>, [a |-> <<>>] >>
BadSweepModel == << << Block(<<>>, << <<"x", IncX>> >>) >>,
                    [a |-> << PyInt(2) >>, b |-> <<>>] >>
RaisingModel == << << Block(<<>>, << <<"y", IncY>>, <<"x", Raises>> >>) >>,
                   [a |-> << PyInt(1), PyInt(2) >>] >>
NoBlockModel == << <<>>, EmptyDict >>
TwoBlockModel == << << Block(<<>>, << <<"x", IncX>> >>),
                       Block(<<>>, << <<"x", IncX>>, <<"y", IncY>> >>) >>, EmptyDict >>

SimChoices ==
    { Simulation(m, 1, r) :
        m \in {IncModel, SweptModel, PaddedModel, EmptySeqModel, BadSweepModel,
               RaisingModel, TwoBlockModel},
        r \in {1, MaxRuns} }
    \cup { Simulation(NoBlockModel, 0, r) : r \in {1, MaxRuns} }

\* a caller about to call run(simulations); every simulation has its own
\* initial_state dict
InitRun ==
    /\ \E sims \in SeqsUpTo(SimChoices, MaxSims) :
          simulations = [i \in 1..Len(sims) |-> [sims[i] EXCEPT !.initial_state = i]]
    /\ heap = [i \in 1..Len(simulations) |-> [x |-> 0, y |-> 0]]
    /\ origin = [i \in 1..Len(simulations) |-> Origin("caller", 0, 0)]
    /\ simulation_index = 0
    /\ run_index = 0
    /\ param_sweep = <<>>
    /\ subset_index = 0
    /\ run_result = <<>>
    /\ run_pc = "simulation"
    /\ run_outcome = "none"
    /\ units = <<>>
    /\ simulation = 0
    /\ timesteps = 0
    /\ run = 0
    /\ subset = 0
    /\ initial_state = 0
    /\ state_update_blocks = <<>>
    /\ params = EmptyDict
    /\ pc = "idle"
    /\ SingleRunLocalsInit
    /\ FnIdle

\* what the caller of run receives: the list of line 133, or nothing but the
\* error when run ended at a ? or at an unwrap
HandedBack == IF run_pc = "done" THEN run_result ELSE <<>>

NextRun ==
    \/ RunBeginSimulation
    \/ RunReturn
    \/ RunCallUnit
    \/ RunEndSimulation
    \/ RunCollect
    \/ RunAbort
    \/ SingleRunNext

SpecRun == InitRun /\ [][NextRun]_vars

(***************************************************************************)
(* Claims about generate_parameter_sweep (checked under SpecSweep).        *)
(***************************************************************************)
SweepReturned == pc = "returned" /\ run_pc = "idle" /\ fn_out.status /= "none"

\* L is the maximum length of the parameter sequences, 0 for no parameter
IsSweepLength(p, L) ==
    /\ \A k \in DOMAIN p : Len(p[k]) <= L
    /\ IF DOMAIN p = {} THEN L = 0 ELSE \E k \in DOMAIN p : Len(p[k]) = L

\* the parameter set at index i: element i, or the last element past the end
IsPadded(p, sweep) ==
    \A i \in 1..Len(sweep) :
        /\ DOMAIN sweep[i] = DOMAIN p
        /\ \A k \in DOMAIN p :
              /\ i <= Len(p[k]) => sweep[i][k] = p[k][i]
              /\ i > Len(p[k]) => /\ Len(p[k]) > 0
                                  /\ sweep[i][k] = p[k][Len(p[k])]

SomeEmptySomeNot(p) ==
    /\ \E k \in DOMAIN p : Len(p[k]) = 0
    /\ \E k \in DOMAIN p : Len(p[k]) > 0

\* C4 as stated: for every params mapping the call returns the padded sweep
\* of length L.
C4_AsStated ==
    SweepReturned =>
        /\ fn_out.status = "ok"
        /\ IsSweepLength(fn_in, Len(fn_out.value))
        /\ IsPadded(fn_in, fn_out.value)

\* C4, amended: for every params mapping in which no sequence is empty unless
\* all are, the call returns the sweep of length L = the maximum sequence
\* length (empty for no parameter), whose set i gives each name its element i
\* or, past the end of its sequence, its last element; with an empty sequence
\* next to a non-empty one the call fails and returns no sweep.
C4_SweepPadded ==
    SweepReturned =>
        IF SomeEmptySomeNot(fn_in)
        THEN fn_out.status \in {"panic", "IndexError"}
        ELSE /\ fn_out.status = "ok"
             /\ IsSweepLength(fn_in, Len(fn_out.value))
             /\ IsPadded(fn_in, fn_out.value)

\* a sweep in which a shorter sequence was padded with its last element,
\* which differs from the element that cycling would give
C4_Witness ==
    /\ SweepReturned
    /\ fn_out.status = "ok"
    /\ \E k \in DOMAIN fn_in :
          /\ Len(fn_in[k]) = 2
          /\ Len(fn_out.value) = 3
          /\ fn_in[k][1] /= fn_in[k][2]
          /\ fn_out.value[3][k] = fn_in[k][2]

(***************************************************************************)
(* Claims about reduce_signals (checked under SpecReduce).                 *)
(***************************************************************************)
ReduceReturned == pc = "returned" /\ run_pc = "idle" /\ fn_out.status /= "none"

\* Python's a + b: a.__add__(b), then b.__radd__(a) when that is
\* NotImplemented, then TypeError
PyPlus(a, b) ==
    CASE a.t = "int"   /\ b.t = "int"   -> PyInt(a.v + b.v)
      [] a.t = "int"   /\ b.t = "float" -> PyFloat(a.v + b.v)
      [] a.t = "float" /\ b.t \in {"int", "float"} -> PyFloat(a.v + b.v)
      [] a.t = "str"   /\ b.t = "str"   -> PyStr(a.v * 10 + b.v)
      [] OTHER                          -> PyRaised

\* the outputs of the policies that produce key, in the order of the mapping
RECURSIVE ValuesOf(_, _, _)
ValuesOf(policies, i, key) ==
    IF i > Len(policies) THEN <<>>
    ELSE (IF key \in DOMAIN policies[i][2].out THEN << policies[i][2].out[key] >> ELSE <<>>)
         \o ValuesOf(policies, i + 1, key)

RECURSIVE PlusAll(_, _, _)
PlusAll(values, i, acc) ==
    IF i > Len(values) THEN acc
    ELSE IF acc = PyRaised THEN PyRaised
    ELSE PlusAll(values, i + 1, PyPlus(acc, values[i]))

PlusOf(policies, key) ==
    LET values == ValuesOf(policies, 1, key) IN PlusAll(values, 2, values[1])

AllReturnDicts(policies) == \A i \in 1..Len(policies) : policies[i][2].op = "ret"

KeysOf(policies) == UNION { DOMAIN policies[i][2].out : i \in 1..Len(policies) }

\* C5: zero policies reduce to the empty mapping, one policy to its output
\* unchanged, several policies to the key-wise merge: a key of one policy
\* keeps its value, a key of several holds their values combined with + in
\* the order of the policies mapping (wherever + is defined on them).
C5_ReduceIsPlus ==
    (ReduceReturned /\ AllReturnDicts(fn_in)) =>
        CASE Len(fn_in) = 0 -> fn_out.status = "ok" /\ fn_out.value = EmptyDict
          [] Len(fn_in) = 1 -> fn_out.status = "ok" /\ fn_out.value = fn_in[1][2].out
          [] OTHER ->
               (\A key \in KeysOf(fn_in) : PlusOf(fn_in, key) /= PyRaised) =>
                   /\ fn_out.status = "ok"
                   /\ fn_out.value = [key \in KeysOf(fn_in) |-> PlusOf(fn_in, key)]

(***************************************************************************)
(* Claims about single_run (checked under Spec).                           *)
(***************************************************************************)
Succeeded == pc = "done" /\ outcome = "ok"

\* the substate stored at outer index t, inner index s (both from 1)
Substate(t, s) == heap[result[t][s]]

\* C1: a successful single_run returns timesteps + 1 entries; entry 0 holds
\* one substate, the stamped initial state; every later entry holds one
\* substate per block, the one at inner index s made by block s of that
\* timestep.
C1_TrajectoryShape ==
    Succeeded =>
        /\ Len(result) = timesteps + 1
        /\ Len(result[1]) = 1
        /\ origin[result[1][1]] = Origin("entry0", 0, 0)
        /\ Substate(1, 1) = heap[initial_state]
        /\ MetadataKeys \subseteq DOMAIN Substate(1, 1)
        /\ \A t \in 2..Len(result) :
              /\ Len(result[t]) = Len(state_update_blocks)
              /\ \A s \in 1..Len(result[t]) :
                    origin[result[t][s]] = Origin("block", t - 2, s - 1)

\* a successful run of two timesteps over two blocks
C1_Witness ==
    /\ Succeeded
    /\ timesteps = 2
    /\ Len(state_update_blocks) = 2
    /\ Len(result) = 3
    /\ Len(result[3]) = 2

\* a successful run over the empty sequence of blocks
C1_WitnessNoBlocks ==
    /\ Succeeded
    /\ timesteps = 1
    /\ state_update_blocks = <<>>
    /\ result[2] = <<>>

UserKeys(d) == (DOMAIN d) \ MetadataKeys

SameUserState(d, e) ==
    /\ UserKeys(d) = UserKeys(e)
    /\ \A k \in UserKeys(d) : d[k] = e[k]

\* a block whose first variable is x, updated to x + 1
IncrementsX(b) ==
    /\ Len(b.variables) >= 1
    /\ b.variables[1][1] = "x"
    /\ b.variables[1][2].op = "inc"
    /\ b.variables[1][2].key = "x"

LastSubstate == heap[result[Len(result)][Len(result[Len(result)])]]

\* C2: the state a block starts from is, for block 0, the last substate of
\* the previous timestep and, for a later block, the result of the block
\* before it; so when every block increments x the last substate of a
\* completed run has x = x0 + T * B.
C2_StateChained ==
    /\ (pc = "var" /\ var_index = 1) =>
          SameUserState(heap[substate],
                        IF substep = 0
                        THEN LastSubstate
                        ELSE heap[substeps[substep]])
    /\ ( /\ Succeeded
         /\ Len(result[Len(result)]) > 0
         /\ \A i \in 1..Len(state_update_blocks) : IncrementsX(state_update_blocks[i]) )
       => LastSubstate["x"] =
             Substate(1, 1)["x"] + timesteps * Len(state_update_blocks)

\* two timesteps of two incrementing blocks: x has grown by 4
C2_Witness ==
    /\ Succeeded
    /\ timesteps = 2
    /\ Len(state_update_blocks) = 2
    /\ \A i \in 1..Len(state_update_blocks) : IncrementsX(state_update_blocks[i])
    /\ LastSubstate["x"] = Substate(1, 1)["x"] + 4

\* C3: every substate at outer index t carries simulation, subset, run + 1
\* and timestep = t, and the substate of entry 0 carries substep = 0.
C3_MetadataStamped ==
    Succeeded =>
        /\ \A t \in 1..Len(result) : \A s \in 1..Len(result[t]) :
              /\ Substate(t, s)["simulation"] = simulation
              /\ Substate(t, s)["subset"] = subset
              /\ Substate(t, s)["run"] = run + 1
              /\ Substate(t, s)["timestep"] = t - 1
        /\ Substate(1, 1)["substep"] = 0

LastCall == calls[Len(calls)]

\* the last user function the engine called was an update function,
\* registered under one variable key, that returned a pair with another key
ReturnedOtherKey ==
    /\ pc \in {"var", "error", "done", "timestep", "block", "reduce", "update"}
    /\ Len(calls) > 0
    /\ LastCall.fn = "update"
    /\ LastCall.ret.status = "ok"
    /\ LastCall.ret.key /= LastCall.state

\* C6 as stated: such a return fails the run with StateKeyMismatch, whether
\* or not the returned key is a key of the schema, and nothing is applied.
C6_AsStated ==
    ReturnedOtherKey =>
        /\ pc = "error"
        /\ outcome = "StateKeyMismatch"
        /\ heap[substate] = LastCall.acc

\* C6, amended: an update function registered under x that returns a pair
\* whose key y differs from x fails the run, and (y, v) is not applied to the
\* accumulating substate: with StateKeyMismatch when y is a key of the
\* initial_state mapping, with InvalidStateKey when it is not.
C6_MismatchFails ==
    ReturnedOtherKey =>
        /\ pc = "error"
        /\ outcome = IF LastCall.ret.key \in DOMAIN heap[initial_state]
                     THEN "StateKeyMismatch"
                     ELSE "InvalidStateKey"
        /\ heap[substate] = LastCall.acc

\* an update function registered under x returned (y, v), y a key of the
\* schema, and the run failed on it
C6_Witness ==
    /\ ReturnedOtherKey
    /\ LastCall.state = "x"
    /\ LastCall.ret.key = "y"
    /\ outcome = "StateKeyMismatch"

DeclaredNames ==
    UNION { { state_update_blocks[i].variables[j][1] :
                j \in 1..Len(state_update_blocks[i].variables) } :
            i \in 1..Len(state_update_blocks) }

\* C7: a declared variable name that is no key of the mapping the caller
\* supplied fails the run with InvalidStateKey when it is reached: no policy
\* or update function is called for it and no trajectory is returned.
C7_DeclaredKeyChecked ==
    /\ pc \in {"reduce", "update"} => state \in SchemaKeys
    /\ \A i \in 1..Len(calls) : calls[i].state \in SchemaKeys
    /\ (Succeeded /\ timesteps >= 1) => DeclaredNames \subseteq SchemaKeys

SameVariable(c, e) ==
    /\ c.timestep = e.timestep
    /\ c.substep = e.substep
    /\ c.state = e.state

Dirty(d) == "dirty" \in DOMAIN d

\* no object the engine keeps shows a write of a user function
EngineStateClean ==
    /\ \A t \in 1..Len(result) : \A s \in 1..Len(result[t]) : ~Dirty(Substate(t, s))
    /\ \A s \in 1..Len(substeps) : ~Dirty(heap[substeps[s]])
    /\ pc \in {"var", "reduce", "update"} => ~Dirty(heap[substate])
    /\ pc \in {"block", "var", "reduce", "update"} => ~Dirty(heap[previous_state])
    /\ ~Dirty(heap[initial_state])

\* C8 as stated: a write to the substate argument shows in no later policy
\* or update call of the substep, nor in the accumulated result, nor in the
\* trajectory.
C8_AsStated ==
    pc \in {"timestep", "block", "var", "reduce", "update", "done", "error"} =>
        /\ \A j \in 1..Len(calls) : ~Dirty(calls[j].arg)
        /\ EngineStateClean

\* C8, amended: a write that a policy or update function makes to its
\* substate argument shows only in the later calls made for the same
\* variable of the same substep (its policies and its update function share
\* one clone); it never shows in a call made for another variable, in the
\* accumulated result of the substep or in a trajectory entry.
C8_MutationIsolated ==
    pc \in {"timestep", "block", "var", "reduce", "update", "done", "error"} =>
        /\ \A j \in 1..Len(calls) :
              Dirty(calls[j].arg) =>
                  \E i \in 1..(j - 1) : calls[i].mut /\ SameVariable(calls[i], calls[j])
        /\ EngineStateClean

\* a function wrote to its argument, and a function called later in the same
\* substep for another variable received a clean substate
C8_Witness ==
    \E i, j \in 1..Len(calls) :
        /\ i < j
        /\ calls[i].mut
        /\ calls[i].timestep = calls[j].timestep
        /\ calls[i].substep = calls[j].substep
        /\ calls[i].state /= calls[j].state
        /\ ~Dirty(calls[j].arg)
        /\ Dirty(heap[calls[i].ref])

\* the trajectory built so far, and the substates of the timestep in
\* progress, keep their place and their content in this step
HistoryKept ==
    /\ Len(result') >= Len(result)
    /\ \A t \in 1..Len(result) :
          /\ result'[t] = result[t]
          /\ \A s \in 1..Len(result[t]) : heap'[result[t][s]] = heap[result[t][s]]
    /\ \A s \in 1..Len(substeps) :
          /\ heap'[substeps[s]] = heap[substeps[s]]
          /\ pc \in {"block", "var", "reduce", "update"} =>
                IF pc' = "timestep"
                THEN result'[Len(result')][s] = substeps[s]
                ELSE Len(substeps') >= Len(substeps) /\ substeps'[s] = substeps[s]

\* C9: once a substate is appended the engine never changes it: every step
\* keeps the trajectory built so far as a prefix, and the substate stored for
\* a block is not changed by the blocks and timesteps after it.
C9_HistoryImmutable == [][pc /= "start" => HistoryKept]_vars

\* a trajectory of three entries, the second block of the last one done
C9_Witness ==
    /\ Succeeded
    /\ Len(result) = 3
    /\ Len(result[2]) = 2
    /\ Substate(2, 1)["timestep"] = 1
    /\ Substate(3, 2)["timestep"] = 2
    /\ Substate(2, 1)["substep"] = 1

(***************************************************************************)
(* Claims about run (checked under SpecRun).                               *)
(***************************************************************************)
\* the units of simulation i (from 0), in the order simulation, run, subset
UnitsOfSimulation(i) ==
    LET sim   == simulations[i + 1]
        sweep == IF SweepFails(sim.params) THEN <<>> ELSE SweepValue(sim.params)
        n     == IF Len(sweep) > 0 THEN Len(sweep) ELSE 1
    IN  IF SweepFails(sim.params) THEN <<>>
        ELSE [u \in 1..(sim.runs * n) |->
                 [ simulation |-> i,
                   run        |-> (u - 1) \div n,
                   subset     |-> (u - 1) % n,
                   params     |-> IF Len(sweep) > 0
                                  THEN sweep[((u - 1) % n) + 1]
                                  ELSE [k \in DOMAIN sim.params |-> PyEmptyList] ]]

RECURSIVE UnitsFrom(_)
UnitsFrom(i) ==
    IF i >= Len(simulations) THEN <<>>
    ELSE UnitsOfSimulation(i) \o UnitsFrom(i + 1)

UnitCalls ==
    [i \in 1..Len(units) |->
        [simulation |-> units[i].simulation, run |-> units[i].run,
         subset |-> units[i].subset, params |-> units[i].params]]

RECURSIVE ResultsFrom(_)
ResultsFrom(i) ==
    IF i > Len(units) THEN <<>> ELSE units[i].result \o ResultsFrom(i + 1)

IsPrefix(a, b) == Len(a) <= Len(b) /\ \A i \in 1..Len(a) : a[i] = b[i]

\* C10: run calls the Run Executor in the order simulation, run, subset: the
\* calls made so far are always the first calls of that enumeration (one per
\* parameter set of a non-empty sweep, with subset = the sweep index, and one
\* per run with the raw params and subset 0 for an empty sweep); a run that
\* returns has made all of them, and its output is the concatenation of the
\* units' trajectories in that order.
C10_UnitOrder ==
    run_pc /= "idle" =>
        /\ IsPrefix(UnitCalls, UnitsFrom(0))
        /\ run_result = ResultsFrom(1)
        /\ run_pc = "done" =>
              /\ UnitCalls = UnitsFrom(0)
              /\ \A i \in 1..Len(units) : units[i].returned

\* run returned after a simulation of two runs over a sweep of two sets,
\* followed by a simulation with an empty sweep
C10_Witness ==
    /\ run_pc = "done"
    /\ Len(simulations) = 2
    /\ Len(units) = 5
    /\ units[4].run = 1 /\ units[4].subset = 1 /\ units[4].params["a"] = PyInt(2)
    /\ units[5].simulation = 1 /\ units[5].subset = 0 /\ units[5].params = EmptyDict
    /\ Len(run_result) = 10

\* the unit's simulation, as the caller configured it
SimulationOf(unit) == simulations[unit.simulation + 1]

\* a reference to a state dict, and not a list of them
IsSubstate(e) == ToString(e) \in { ToString(ref) : ref \in 1..Len(heap) }

RECURSIVE SubstateCount(_)
SubstateCount(i) ==
    IF i > Len(units) THEN 0
    ELSE 1 + SimulationOf(units[i]).timesteps
               * Len(SimulationOf(units[i]).state_update_blocks)
         + SubstateCount(i + 1)

\* C11: the sequence that run returns is flattened down to substates: a unit
\* of T timesteps over B blocks contributes 1 + T * B elements, and every
\* element is one substate, not the sequence of substates of a timestep.
C11_OutputFlattened ==
    run_pc = "done" =>
        /\ Len(run_result) = SubstateCount(1)
        /\ \A i \in 1..Len(run_result) : IsSubstate(run_result[i])

\* run has ended, and a unit it called has failed
UnitFailed ==
    /\ run_pc \in {"done", "error"}
    /\ \E i \in 1..Len(units) : ~units[i].returned

\* C12: when a unit fails inside run only that unit is failed: the units after
\* it are still executed, and what run hands back holds the trajectories of
\* the units that completed.
C12_FailureIsolated ==
    UnitFailed =>
        /\ UnitCalls = UnitsFrom(0)
        /\ HandedBack = ResultsFrom(1)

\* the caller's model is left as it is by this step
ModelKept ==
    /\ heap'[initial_state] = heap[initial_state]
    /\ state_update_blocks' = state_update_blocks
    /\ params' = params

\* C13: the engine never changes the caller's model: no step of single_run
\* changes a key or a value of the initial_state mapping, the blocks or the
\* params, so that they are after the call what they were before it.
C13_ModelReadOnly == [][ModelKept]_vars

\* a model whose policy and update functions are pure: they write to none of
\* their arguments (and no function of the catalogue reads the run index)
PureModel(sim) ==
    \A b \in 1..Len(sim.state_update_blocks) :
        /\ \A i \in 1..Len(sim.state_update_blocks[b].policies) :
              ~sim.state_update_blocks[b].policies[i][2].mut
        /\ \A i \in 1..Len(sim.state_update_blocks[b].variables) :
              ~sim.state_update_blocks[b].variables[i][2].mut

SameExceptRun(d, e) ==
    /\ DOMAIN d = DOMAIN e
    /\ \A k \in (DOMAIN d) \ {"run"} : d[k] = e[k]

SameTrajectoryExceptRun(a, b) ==
    /\ Len(a) = Len(b)
    /\ \A t \in 1..Len(a) :
          /\ Len(a[t]) = Len(b[t])
          /\ \A s \in 1..Len(a[t]) : SameExceptRun(heap[a[t][s]], heap[b[t][s]])

\* two completed runs of the same simulation with the same parameter set
TwoRuns(i, j) ==
    /\ units[i].returned
    /\ units[j].returned
    /\ units[i].simulation = units[j].simulation
    /\ units[i].subset = units[j].subset
    /\ units[i].params = units[j].params
    /\ units[i].run /= units[j].run
    /\ PureModel(SimulationOf(units[i]))

\* the trajectory that unit i returned is left as it is by this step
ReturnedKept(i) ==
    (units[i].returned /\ PureModel(SimulationOf(units[i]))) =>
        /\ units'[i].result = units[i].result
        /\ \A t \in 1..Len(units[i].result) : \A s \in 1..Len(units[i].result[t]) :
              heap'[units[i].result[t][s]] = heap[units[i].result[t][s]]

\* C14: for a model of pure functions that do not read the run index, the
\* trajectories of two runs of the same model and parameter set are equal
\* except for the run field, whichever of them was executed first and
\* whatever was executed between them; the later run leaves the trajectory of
\* the earlier one as it was.
C14_RunsIndependent ==
    /\ [](\A i, j \in 1..Len(units) :
            TwoRuns(i, j) => SameTrajectoryExceptRun(units[i].result, units[j].result))
    /\ [][\A i \in 1..Len(units) : ReturnedKept(i)]_vars

\* run 0 and run 1 of a swept model, both with the first parameter set, and
\* the second parameter set executed between them
C14_Witness ==
    /\ run_pc = "done"
    /\ Len(units) = 4
    /\ TwoRuns(1, 3)
    /\ units[2].subset = 1
    /\ heap[units[1].result[2][1]]["x"] = 1
    /\ heap[units[1].result[2][1]]["run"] = 1
    /\ heap[units[3].result[2][1]]["run"] = 2

\* the state the substep in progress started from (lines 187-193)
SubstepInput == heap[SubstateSource(previous_state, substeps, substep)]

\* C15: the substate passed to the policies and to the update function of a
\* declared variable holds, for every state variable, the value of the
\* substep's input state, even when a variable declared earlier in the same
\* block has had its update applied.
C15_SiblingIsolation ==
    pc \in {"reduce", "update"} =>
        \A k \in UserKeys(SubstepInput) : heap[substate_copy][k] = SubstepInput[k]

\* the number of times the engine called policy name of block s (from 0) in
\* timestep t (from 0)
PolicyCalls(t, s, name) ==
    Cardinality({ j \in 1..Len(calls) :
                    /\ calls[j].fn = "policy"
                    /\ calls[j].timestep = t
                    /\ calls[j].substep = s
                    /\ calls[j].name = name })

\* C16: the signal reducer runs once per substep: in the execution of one
\* block in one timestep each policy of the block is called exactly once,
\* whatever the number of variables the block declares.
C16_PoliciesOncePerSubstep ==
    \A s \in 1..Len(state_update_blocks) :
        \A i \in 1..Len(state_update_blocks[s].policies) :
            LET name == state_update_blocks[s].policies[i][1]
            IN  /\ \A t \in 0..(timesteps - 1) : PolicyCalls(t, s - 1, name) <= 1
                /\ Succeeded =>
                      \A t \in 0..(timesteps - 1) : PolicyCalls(t, s - 1, name) = 1

\* the policies of the block that call c was made for
PoliciesOf(c) == state_update_blocks[c.substep + 1].policies

\* the outputs of the policies can be merged with +
Mergeable(policies) ==
    \A key \in KeysOf(policies) : PlusOf(policies, key) /= PyRaised

\* the call failed its stage: the function raised or returned the wrong
\* shape (no dict, no tuple, a tuple that is no pair), or an update function
\* returned a key that is not the declared one
CallFailed(c) ==
    \/ c.ret.status /= "ok"
    \/ c.fn = "update" /\ c.ret.len /= 2
    \/ c.fn = "update" /\ c.ret.key /= c.state

\* C17: every failure of an inner stage ends single_run in an error: a call
\* that fails its stage is the last call the engine makes and the run is in
\* its error outcome, with no trajectory returned; and when the outputs of
\* the policies of a block share a key whose values do not support +, the
\* run ends at the merge, so that no update function is called after it.
C17_FailFast ==
    \A j \in 1..Len(calls) :
        /\ CallFailed(calls[j]) => (j = Len(calls) /\ pc = "error")
        /\ calls[j].fn = "update" => Mergeable(PoliciesOf(calls[j]))

\* C18: every substate of a trajectory, and every substate stored for the
\* timestep in progress, has exactly the keys of the initial state and the
\* five metadata keys: no substep adds a key to the state or removes one.
C18_KeySetPreserved ==
    pc \in {"timestep", "block", "var", "reduce", "update", "done", "error"} =>
        /\ \A t \in 1..Len(result) : \A s \in 1..Len(result[t]) :
              DOMAIN Substate(t, s) = SchemaKeys \cup MetadataKeys
        /\ \A s \in 1..Len(substeps) :
              DOMAIN heap[substeps[s]] = SchemaKeys \cup MetadataKeys
        /\ pc \in {"var", "reduce", "update"} =>
              DOMAIN heap[substate] = SchemaKeys \cup MetadataKeys

\* a completed run of two timesteps over two blocks whose updates were
\* applied to both variables
C18_Witness ==
    /\ Succeeded
    /\ Len(result) = 3
    /\ Len(result[3]) = 2
    /\ Substate(3, 2)["x"] /= Substate(1, 1)["x"]
    /\ Substate(3, 2)["y"] /= Substate(1, 1)["y"]
    /\ DOMAIN Substate(3, 2) = DOMAIN Substate(1, 1)

\* C19: the substate stored at inner index s (from 0) of a timestep entry
\* t >= 1 carries substep = s + 1, the policy and update functions of that
\* block are passed the substep argument s, and only the substate of entry 0
\* carries substep = 0.
C19_SubstepNumbering ==
    pc \in {"timestep", "block", "var", "reduce", "update", "done", "error"} =>
        /\ Substate(1, 1)["substep"] = 0
        /\ \A t \in 2..Len(result) : \A s \in 1..Len(result[t]) :
              Substate(t, s)["substep"] = (s - 1) + 1
        /\ \A s \in 1..Len(substeps) : heap[substeps[s]]["substep"] = (s - 1) + 1
        /\ \A j \in 1..Len(calls) :
              /\ calls[j].substep \in 0..(Len(state_update_blocks) - 1)
              /\ origin[calls[j].ref] = Origin("clone", calls[j].timestep, calls[j].substep)
              /\ calls[j].arg["substep"] = calls[j].substep + 1

====
